---- MODULE Spec2Model ----
(***************************************************************************)
(* Trust-aware decision service: the risk assessment engine                *)
(* (app/decision.py), the explanation generator (app/explain.py), the      *)
(* classifier singleton (app/model.py) and the HTTP handlers (app/api.py). *)
(*                                                                         *)
(* Texts are sequences of one-character strings.  Probabilities and        *)
(* thresholds are integers counting hundredths (0.7 is 70); the code only  *)
(* compares and subtracts them, and the rounding of a float subtraction is *)
(* left out.  Python's None is the empty tuple where a value is optional.  *)
(* A part of the narrative is the name of its sentence with the values the *)
(* sentence reports, not the formatted English text.                       *)
(***************************************************************************)
EXTENDS Integers, Sequences, FiniteSets, TLC

VARIABLES
    classifier,   \* model._classifier: 0 is None, n > 0 the n-th TextClassifier built
    constructed,  \* how many times TextClassifier.__init__ has run in this process
    pc,           \* "idle": no call in progress; "returned": a call has produced its outcome
    op,           \* the operation that produced the outcome: analyze, health, make_decision
    request,      \* the arguments of that call
    result,       \* the TextClassificationResult of the call (<<>> when none)
    decision,     \* the DecisionDetails of the call (<<>> when none)
    explanation,  \* the parts of the narrative, in order (<<>> when none)
    response,     \* what the call returned to its caller
    calls,        \* the collaborators the handler invoked, in order
    was_loaded,   \* whether _classifier was set when the handler was entered
    prev          \* flags and decision of the DecisionDetails returned before this one

vars == <<classifier, constructed, pc, op, request, result, decision,
          explanation, response, calls, was_loaded, prev>>

None == <<>>

----------------------------------------------------------------------------
(* Bounds of the model *)

\* pieces of vocabulary in a text handed to make_decision directly
MaxPieces == 2
\* pieces of vocabulary in the text of an analyze request
MaxRequestPieces == 3

----------------------------------------------------------------------------
(* Strings *)

Min(S) == CHOOSE x \in S : \A y \in S : x <= y

UpperToLower ==
    ("A" :> "a") @@ ("B" :> "b") @@ ("C" :> "c") @@ ("D" :> "d") @@ ("E" :> "e") @@
    ("F" :> "f") @@ ("G" :> "g") @@ ("H" :> "h") @@ ("I" :> "i") @@ ("J" :> "j") @@
    ("K" :> "k") @@ ("L" :> "l") @@ ("M" :> "m") @@ ("N" :> "n") @@ ("O" :> "o") @@
    ("P" :> "p") @@ ("Q" :> "q") @@ ("R" :> "r") @@ ("S" :> "s") @@ ("T" :> "t") @@
    ("U" :> "u") @@ ("V" :> "v") @@ ("W" :> "w") @@ ("X" :> "x") @@ ("Y" :> "y") @@
    ("Z" :> "z")

UpperLetters == DOMAIN UpperToLower

\* str.lower(): upper-case letters become lower-case, every other character stays
str_lower(s) ==
    [i \in 1..Len(s) |-> IF s[i] \in UpperLetters THEN UpperToLower[s[i]] ELSE s[i]]

\* the characters str.strip() removes from both ends
Whitespace == {" ", "\t", "\n", "\r"}

\* str.strip(): the text between its first and its last non-whitespace character
str_strip(s) ==
    IF \A i \in 1..Len(s) : s[i] \in Whitespace THEN <<>>
    ELSE LET first == CHOOSE i \in 1..Len(s) :
                          s[i] \notin Whitespace /\ \A j \in 1..(i - 1) : s[j] \in Whitespace
             last  == CHOOSE i \in 1..Len(s) :
                          s[i] \notin Whitespace /\ \A j \in (i + 1)..Len(s) : s[j] \in Whitespace
         IN  SubSeq(s, first, last)

\* marker in text: the marker occurs as a contiguous substring
str_in(marker, s) ==
    \E i \in 1..(Len(s) - Len(marker) + 1) :
        \A j \in 1..Len(marker) : s[i + j - 1] = marker[j]

----------------------------------------------------------------------------
(* app/decision.py *)

DEFAULT_CONFIDENCE_THRESHOLD == 70
DEFAULT_MARGIN_THRESHOLD == 20
RISK_REVIEW_THRESHOLD == 2

RECURSIVE sorted_reverse(_)
\* sorted(scores.values(), reverse=True): the values of the mapping, largest first
sorted_reverse(scores) ==
    IF DOMAIN scores = {} THEN <<>>
    ELSE LET top == CHOOSE k \in DOMAIN scores :
                        \A j \in DOMAIN scores : scores[k] >= scores[j]
         IN  <<scores[top]>> \o
             sorted_reverse([j \in DOMAIN scores \ {top} |-> scores[j]])

\* a plausible slip: the spread of the distribution instead of the top-two gap
compute_margin_spread(scores) ==
    IF DOMAIN scores = {} THEN 0
    ELSE LET ordered == sorted_reverse(scores)
         IN  IF Len(ordered) = 1 THEN 0
             ELSE ordered[1] - ordered[Len(ordered)]

_compute_margin(scores) ==
    IF DOMAIN scores = {} THEN 0
    ELSE LET ordered == sorted_reverse(scores)
         IN  IF Len(ordered) = 1 THEN ordered[1]
             ELSE ordered[1] - ordered[2]

_HEDGING_MARKERS == <<
    <<"m", "a", "y", "b", "e">>,
    <<"p", "r", "o", "b", "a", "b", "l", "y">>,
    <<"p", "e", "r", "h", "a", "p", "s">>,
    <<"i", " ", "t", "h", "i", "n", "k">>,
    <<"i", "t", " ", "s", "e", "e", "m", "s">>,
    <<"s", "o", "r", "t", " ", "o", "f">>,
    <<"k", "i", "n", "d", " ", "o", "f">>,
    <<"a", " ", "b", "i", "t">>,
    <<"n", "o", "t", " ", "s", "u", "r", "e">>,
    <<"u", "n", "c", "l", "e", "a", "r">>
>>

_CONTRAST_MARKERS == <<
    <<" ", "b", "u", "t", " ">>,
    <<" ", "h", "o", "w", "e", "v", "e", "r", " ">>,
    <<" ", "a", "l", "t", "h", "o", "u", "g", "h", " ">>,
    <<" ", "t", "h", "o", "u", "g", "h", " ">>,
    <<" ", "y", "e", "t", " ">>
>>

_normalise_text(text) == str_lower(text)

_contains_any(text, markers) ==
    LET lower == _normalise_text(text)
    IN  \E k \in DOMAIN markers : str_in(markers[k], lower)

has_hedging(text) == _contains_any(_normalise_text(text), _HEDGING_MARKERS)
has_contrast(text) == _contains_any(_normalise_text(text), _CONTRAST_MARKERS)
has_question(text) == str_in(<<"?">>, _normalise_text(text))

\* a plausible slip: the question cue left out of the ambiguity condition
detect_ambiguity_signals_no_question(text) ==
    [ambiguous_language |-> has_hedging(text) \/ has_contrast(text),
     mixed_sentiment    |-> has_contrast(text) \/ has_question(text)]

_detect_ambiguity_signals(text) ==
    [ambiguous_language |-> has_hedging(text) \/ has_contrast(text) \/ has_question(text),
     mixed_sentiment    |-> has_contrast(text) \/ has_question(text)]

\* a plausible slip: the mixed-sentiment signal appended before the ambiguity signal
risk_signals_misordered(low_confidence, low_margin, ambiguous_language, mixed_sentiment) ==
    (IF low_confidence THEN <<"low_confidence">> ELSE <<>>) \o
    (IF low_margin THEN <<"low_margin">> ELSE <<>>) \o
    (IF mixed_sentiment THEN <<"mixed_sentiment">> ELSE <<>>) \o
    (IF ambiguous_language THEN <<"ambiguity">> ELSE <<>>)

\* the list make_decision builds from the four flags
risk_signals_of(low_confidence, low_margin, ambiguous_language, mixed_sentiment) ==
    (IF low_confidence THEN <<"low_confidence">> ELSE <<>>) \o
    (IF low_margin THEN <<"low_margin">> ELSE <<>>) \o
    (IF ambiguous_language THEN <<"ambiguity">> ELSE <<>>) \o
    (IF mixed_sentiment THEN <<"mixed_sentiment">> ELSE <<>>)

\* a plausible slip: review only at exactly the threshold
decision_of_exact(risk_score) ==
    IF risk_score = RISK_REVIEW_THRESHOLD THEN "needs_human_review" ELSE "accepted"

\* a plausible slip: review only above the threshold
decision_of_strict(risk_score) ==
    IF risk_score > RISK_REVIEW_THRESHOLD THEN "needs_human_review" ELSE "accepted"

\* the gate at the end of make_decision
decision_of(risk_score) ==
    IF risk_score >= RISK_REVIEW_THRESHOLD THEN "needs_human_review" ELSE "accepted"

make_decision(text, res, threshold, margin_threshold) ==
    LET margin == _compute_margin(res.scores)
        low_confidence == res.confidence < threshold
        low_margin == margin < margin_threshold
        signals == _detect_ambiguity_signals(text)
        risk_signals == risk_signals_of(low_confidence, low_margin,
                                        signals.ambiguous_language,
                                        signals.mixed_sentiment)
        risk_score == Len(risk_signals)
    IN  [decision           |-> decision_of(risk_score),
         threshold          |-> threshold,
         margin             |-> margin,
         margin_threshold   |-> margin_threshold,
         risk_score         |-> risk_score,
         low_confidence     |-> low_confidence,
         low_margin         |-> low_margin,
         ambiguous_language |-> signals.ambiguous_language,
         mixed_sentiment    |-> signals.mixed_sentiment,
         risk_signals       |-> risk_signals]

----------------------------------------------------------------------------
(* app/explain.py *)

\* the sentence of one topic of the narrative, with the values it reports
Part(topic, sentence, values) ==
    [topic |-> topic, sentence |-> sentence, values |-> values]

\* a plausible slip: the two sentences for an accepted prediction exchanged
summary_part_exchanged(d) ==
    IF d.decision = "needs_human_review"
    THEN Part(6, "defers_to_human_review", <<d.risk_score, RISK_REVIEW_THRESHOLD>>)
    ELSE IF d.risk_score # 0
         THEN Part(6, "comfortable_accepting", <<>>)
         ELSE Part(6, "accepted_with_risk", <<d.risk_score, RISK_REVIEW_THRESHOLD>>)

\* topic 6: how the risk score drove the final decision
summary_part(d) ==
    IF d.decision = "needs_human_review"
    THEN Part(6, "defers_to_human_review", <<d.risk_score, RISK_REVIEW_THRESHOLD>>)
    ELSE IF d.risk_score = 0
         THEN Part(6, "comfortable_accepting", <<>>)
         ELSE Part(6, "accepted_with_risk", <<d.risk_score, RISK_REVIEW_THRESHOLD>>)

generate_explanation(text, res, d) ==
    << Part(1, "prediction", <<res.label, res.confidence>>),
       IF d.low_confidence
       THEN Part(2, "confidence_below_threshold", <<d.threshold>>)
       ELSE Part(2, "confidence_above_threshold", <<d.threshold>>),
       IF d.low_margin
       THEN Part(3, "margin_below_threshold", <<d.margin, d.margin_threshold>>)
       ELSE Part(3, "margin_above_threshold", <<d.margin, d.margin_threshold>>),
       IF d.ambiguous_language \/ d.mixed_sentiment
       THEN IF d.ambiguous_language /\ d.mixed_sentiment
            THEN Part(4, "ambiguous_and_mixed", <<>>)
            ELSE IF d.ambiguous_language
                 THEN Part(4, "only_ambiguous", <<>>)
                 ELSE Part(4, "only_mixed", <<>>)
       ELSE Part(4, "no_ambiguity", <<>>),
       IF d.risk_signals # <<>>
       THEN Part(5, "triggered_risk_signals", d.risk_signals)
       ELSE Part(5, "no_risk_signals", <<>>),
       summary_part(d) >>

----------------------------------------------------------------------------
(* app/model.py *)

MODEL_NAME == "distilbert-base-uncased-finetuned-sst-2-english"

\* config.id2label of the loaded model, in index order
id2label == <<"NEGATIVE", "POSITIVE">>

\* the softmax outputs the network may give for index 1, in hundredths
Probabilities == {5, 50, 55}

\* TextClassifier.predict, given the probability the network assigns to index 1
predict(p) ==
    LET probs == <<100 - p, p>>
        labels == {id2label[i] : i \in 1..Len(probs)}
        scores == [l \in labels |-> probs[CHOOSE i \in 1..Len(probs) : id2label[i] = l]]
        \* max(scores, key=scores.get): the first key, in insertion order, of largest value
        first == Min({i \in 1..Len(probs) : \A j \in 1..Len(probs) : probs[i] >= probs[j]})
        label == id2label[first]
    IN  [label |-> label, confidence |-> scores[label], scores |-> scores]

\* a plausible slip: a new classifier on every call
get_model_always_new(current, built) ==
    [classifier |-> built + 1, constructed |-> built + 1]

\* get_model: the module's _classifier and the count of constructions after the call
get_model(current, built) ==
    IF current = 0
    THEN [classifier |-> built + 1, constructed |-> built + 1]
    ELSE [classifier |-> current, constructed |-> built]

----------------------------------------------------------------------------
(* app/api.py *)

MAX_TEXT_LENGTH == 4000

\* AnalyzeRequest: confidence_threshold is absent or within [0, 1]
valid_request(req) ==
    req.confidence_threshold = None
    \/ (req.confidence_threshold[1] >= 0 /\ req.confidence_threshold[1] <= 100)

\* a plausible slip: the guard one character too strict
too_long_off_by_one(text) == Len(text) >= MAX_TEXT_LENGTH

\* the length guard of analyze
too_long(text) == Len(text) > MAX_TEXT_LENGTH

\* the threshold analyze evaluates with
threshold_of(req) ==
    IF req.confidence_threshold # None
    THEN req.confidence_threshold[1]
    ELSE DEFAULT_CONFIDENCE_THRESHOLD

----------------------------------------------------------------------------
(* Inputs *)

Vocabulary == {
    <<"o", "k">>,
    <<" ", "b", "u", "t", " ">>,
    <<"M", "a", "y", "b", "e">>,
    <<"?">>,
    <<" ">> }

RECURSIVE TextsUpTo(_)
\* the texts made of at most n pieces of the vocabulary
TextsUpTo(n) ==
    IF n = 0 THEN {<<>>}
    ELSE LET shorter == TextsUpTo(n - 1)
         IN  shorter \cup {t \o w : t \in shorter, w \in Vocabulary}

\* a run of letters two characters short of the length limit
LongFill == [i \in 1..(MAX_TEXT_LENGTH - 2) |-> "x"]

Texts == TextsUpTo(MaxPieces)

\* texts of requests: short ones, and ones at the length limit
RequestTexts ==
    TextsUpTo(MaxRequestPieces)
    \cup {LongFill \o t : t \in Texts}
    \cup {t \o LongFill : t \in Vocabulary}

\* confidence_threshold of a request: absent, or a number (120 is out of range)
RequestThresholds == {None, <<0>>, <<60>>, <<100>>, <<120>>}

\* the short texts come with every threshold, the long ones with none
AnalyzeRequests ==
    {req \in [text : RequestTexts, confidence_threshold : RequestThresholds] :
        Len(req.text) < Len(LongFill) \/ req.confidence_threshold = None}

Labels == <<"NEGATIVE", "POSITIVE", "NEUTRAL">>
ScoreValues == {45, 55, 90}

\* score mappings over the first n labels, n = 0 (the empty mapping) to Len(Labels)
ScoreMappings ==
    UNION {[{Labels[i] : i \in 1..n} -> ScoreValues] : n \in 0..Len(Labels)}

\* the first key of largest value, as max(scores, key=scores.get) picks it
TopLabel(m) ==
    Labels[Min({i \in 1..Len(Labels) :
                   /\ Labels[i] \in DOMAIN m
                   /\ \A k \in DOMAIN m : m[Labels[i]] >= m[k]})]

\* results whose label is the top-scoring key and whose confidence is its score,
\* and results with an empty mapping and any confidence
Results ==
    {[label |-> TopLabel(m), confidence |-> m[TopLabel(m)], scores |-> m] :
        m \in {x \in ScoreMappings : DOMAIN x # {}}}
    \cup [label : {Labels[1]}, confidence : ScoreValues, scores : {<< >>}]

Thresholds == {70, 90}
MarginThresholds == {0, 20}

----------------------------------------------------------------------------
(* The state machine                                                       *)
(*                                                                         *)
(* analyze and health are coroutines without an await: the event loop runs *)
(* each from entry to return before it starts another, so a handler is one *)
(* step.  was_loaded, calls and prev record what a handler observed and    *)
(* did; the code keeps no such fields.                                     *)

\* the flags and the decision of a DecisionDetails
Summary(d) ==
    [flags    |-> {n \in {"low_confidence", "low_margin", "ambiguous_language",
                          "mixed_sentiment"} : d[n]},
     decision |-> d.decision]

\* no DecisionDetails has been returned yet
NoSummary == [flags |-> {}, decision |-> "none"]

Init ==
    /\ classifier = 0
    /\ constructed = 0
    /\ pc = "idle"
    /\ op = "none"
    /\ request = None
    /\ result = None
    /\ decision = None
    /\ explanation = None
    /\ response = None
    /\ calls = <<>>
    /\ was_loaded = FALSE
    /\ prev = NoSummary

\* the handler raised before reaching the classifier: nothing but the error comes back
Rejected(req, status, detail) ==
    /\ pc' = "returned"
    /\ op' = "analyze"
    /\ request' = req
    /\ result' = None
    /\ decision' = None
    /\ explanation' = None
    /\ response' = [status |-> status, detail |-> detail]
    /\ calls' = <<>>
    /\ was_loaded' = (classifier # 0)
    /\ UNCHANGED <<classifier, constructed, prev>>

\* POST /analyze
Analyze ==
    /\ pc = "idle"
    /\ \E req \in AnalyzeRequests :
         IF ~valid_request(req)
         THEN Rejected(req, 422, "confidence_threshold out of range")
         ELSE \E text \in {str_strip(req.text)} :
           IF text = <<>>
           THEN Rejected(req, 400, "Text input cannot be empty.")
           ELSE IF too_long(text)
           THEN Rejected(req, 400, "Text input is too long.")
           ELSE \E p \in Probabilities :
                \E model \in {get_model(classifier, constructed)} :
                \E res \in {predict(p)} :
                \E d \in {make_decision(text, res, threshold_of(req),
                                        DEFAULT_MARGIN_THRESHOLD)} :
                \E parts \in {generate_explanation(text, res, d)} :
                  /\ classifier' = model.classifier
                  /\ constructed' = model.constructed
                  /\ pc' = "returned"
                  /\ op' = "analyze"
                  /\ request' = req
                  /\ result' = res
                  /\ decision' = d
                  /\ explanation' = parts
                  /\ response' = [status       |-> 200,
                                  label        |-> res.label,
                                  decision     |-> d.decision,
                                  confidence   |-> res.confidence,
                                  margin       |-> d.margin,
                                  risk_score   |-> d.risk_score,
                                  risk_signals |-> d.risk_signals,
                                  explanation  |-> parts,
                                  model_name   |-> MODEL_NAME,
                                  scores       |-> res.scores]
                  /\ calls' = <<"get_model", "predict", "make_decision",
                                "generate_explanation">>
                  /\ was_loaded' = (classifier # 0)
                  /\ UNCHANGED prev

\* GET /health
Health ==
    /\ pc = "idle"
    /\ \E model \in {get_model(classifier, constructed)} :
         /\ classifier' = model.classifier
         /\ constructed' = model.constructed
    /\ pc' = "returned"
    /\ op' = "health"
    /\ request' = None
    /\ result' = None
    /\ decision' = None
    /\ explanation' = None
    /\ response' = [status |-> "ok", model_name |-> MODEL_NAME, ready |-> TRUE]
    /\ calls' = <<"get_model">>
    /\ was_loaded' = (classifier # 0)
    /\ UNCHANGED prev

\* the response is sent; the request's structures are discarded
Respond ==
    /\ pc = "returned"
    /\ pc' = "idle"
    /\ op' = "none"
    /\ request' = None
    /\ result' = None
    /\ decision' = None
    /\ explanation' = None
    /\ response' = None
    /\ calls' = <<>>
    /\ was_loaded' = FALSE
    /\ UNCHANGED <<classifier, constructed, prev>>

Next == Health \/ Analyze \/ Respond

Spec == Init /\ [][Next]_vars

----------------------------------------------------------------------------
(* The risk assessment engine on its own: make_decision called directly *)

\* make_decision(text, result, threshold, margin_threshold)
MakeDecision ==
    /\ pc = "idle"
    /\ \E text \in Texts, res \in Results, threshold \in Thresholds,
          margin_threshold \in MarginThresholds :
         /\ request' = [text |-> text, result |-> res, threshold |-> threshold,
                        margin_threshold |-> margin_threshold]
         /\ result' = res
         /\ decision' = make_decision(text, res, threshold, margin_threshold)
    /\ pc' = "returned"
    /\ op' = "make_decision"
    /\ explanation' = None
    /\ response' = None
    /\ calls' = <<>>
    /\ UNCHANGED <<classifier, constructed, was_loaded, prev>>

\* the caller takes the DecisionDetails; it is the previous one from now on
Return ==
    /\ pc = "returned"
    /\ op = "make_decision"
    /\ prev' = Summary(decision)
    /\ pc' = "idle"
    /\ op' = "none"
    /\ request' = None
    /\ result' = None
    /\ decision' = None
    /\ explanation' = None
    /\ response' = None
    /\ calls' = <<>>
    /\ UNCHANGED <<classifier, constructed, was_loaded>>

NextCore == MakeDecision \/ Return

SpecCore == Init /\ [][NextCore]_vars

----------------------------------------------------------------------------
(* Properties *)

\* a call has returned a DecisionDetails: make_decision, or an analyze that was not rejected
Evaluated ==
    /\ pc = "returned"
    /\ \/ op = "make_decision"
       \/ (op = "analyze" /\ response.status = 200)

\* the text make_decision was given
EvaluatedText ==
    IF op = "make_decision" THEN request.text ELSE str_strip(request.text)

SignalOrder == <<"low_confidence", "low_margin", "ambiguity", "mixed_sentiment">>

\* the flag of the DecisionDetails d that the i-th signal name stands for
FlagOf(d, i) ==
    CASE i = 1 -> d.low_confidence
      [] i = 2 -> d.low_margin
      [] i = 3 -> d.ambiguous_language
      [] i = 4 -> d.mixed_sentiment

\* C1: the decision is needs_human_review exactly when riskScore >= 2 and accepted
\* otherwise; no other decision value is produced.
C1_ReviewIffScoreAtLeastTwo ==
    Evaluated =>
        /\ decision.decision \in {"accepted", "needs_human_review"}
        /\ (decision.decision = "needs_human_review") <=> (decision.risk_score >= 2)

\* C1 witness: a record right at the threshold, and it is routed to review
C1_Witness ==
    /\ Evaluated
    /\ op = "make_decision"
    /\ decision.risk_score = 2
    /\ decision.decision = "needs_human_review"

\* C2: riskScore equals len(riskSignals) and the number of true flags; a signal name is
\* listed iff its flag is true, at most once, and the names keep the fixed order.
C2_SignalsMirrorFlags ==
    Evaluated =>
        LET d == decision
            pos(name) == CHOOSE i \in 1..4 : SignalOrder[i] = name
        IN  /\ d.risk_score = Len(d.risk_signals)
            /\ d.risk_score = Cardinality({i \in 1..4 : FlagOf(d, i)})
            /\ \A i \in 1..Len(d.risk_signals) :
                   \E k \in 1..4 : d.risk_signals[i] = SignalOrder[k]
            /\ \A k \in 1..4 :
                   FlagOf(d, k) <=>
                       \E i \in 1..Len(d.risk_signals) : d.risk_signals[i] = SignalOrder[k]
            /\ \A i, j \in 1..Len(d.risk_signals) :
                   i < j => pos(d.risk_signals[i]) < pos(d.risk_signals[j])

\* C2 witness: three signals fired, the first flag did not
C2_Witness ==
    /\ Evaluated
    /\ op = "make_decision"
    /\ decision.risk_signals = <<"low_margin", "ambiguity", "mixed_sentiment">>
\* C3: no single cue forces review; a text whose only cue is one question mark (no
\* hedging marker, no contrast marker), with confidence >= threshold and
\* margin >= marginThreshold, is accepted.
C3_StrayQuestionMarkAccepted ==
    (/\ Evaluated
     /\ Cardinality({i \in 1..Len(EvaluatedText) : EvaluatedText[i] = "?"}) = 1
     /\ ~has_hedging(EvaluatedText)
     /\ ~has_contrast(EvaluatedText)
     /\ result.confidence >= decision.threshold
     /\ decision.margin >= decision.margin_threshold)
    => decision.decision = "accepted"

\* C4: mixedSentiment implies ambiguousLanguage, and mixed_sentiment appears in
\* riskSignals only with ambiguity immediately before it.
C4_MixedImpliesAmbiguous ==
    Evaluated =>
        /\ decision.mixed_sentiment => decision.ambiguous_language
        /\ \A i \in 1..Len(decision.risk_signals) :
               decision.risk_signals[i] = "mixed_sentiment" =>
                   i > 1 /\ decision.risk_signals[i - 1] = "ambiguity"

\* C4 witness: a question mark alone raised the mixed-sentiment flag
C4_Witness ==
    /\ Evaluated
    /\ op = "make_decision"
    /\ decision.mixed_sentiment
    /\ \E i \in 1..Len(request.text) : request.text[i] = "?"
    /\ ~has_contrast(request.text)
    /\ ~has_hedging(request.text)

\* the margin by its definition: the largest value minus the largest value that at
\* least two entries reach
ReferenceMargin(scores) ==
    LET keys == DOMAIN scores
        values == {scores[k] : k \in keys}
        atLeast(v) == Cardinality({k \in keys : scores[k] >= v})
    IN  IF keys = {} THEN 0
        ELSE LET largest == CHOOSE v \in values : atLeast(v) >= 1 /\ \A w \in values : w <= v
             IN  IF Cardinality(keys) = 1 THEN largest
                 ELSE LET second == CHOOSE v \in values :
                                        /\ atLeast(v) >= 2
                                        /\ \A w \in values : atLeast(w) >= 2 => w <= v
                      IN  largest - second

\* C5: the margin is 0 for an empty mapping, the single value for one entry and
\* largest minus second largest otherwise, which is >= 0 and 0 on a tie for the top;
\* an empty mapping makes lowMargin true for every marginThreshold > 0.
C5_MarginIsTopTwoGap ==
    (pc = "returned" /\ op = "make_decision") =>
        LET scores == request.result.scores
            keys == DOMAIN scores
        IN  /\ decision.margin = ReferenceMargin(scores)
            /\ Cardinality(keys) >= 2 => decision.margin >= 0
            /\ (\E a, b \in keys :
                    a # b /\ scores[a] = scores[b] /\ \A k \in keys : scores[k] <= scores[a])
                   => decision.margin = 0
            /\ (keys = {} /\ request.margin_threshold > 0) => decision.low_margin

\* C5 witness: three entries, all different, so the second largest is not the smallest
C5_Witness ==
    /\ pc = "returned"
    /\ op = "make_decision"
    /\ Cardinality(DOMAIN request.result.scores) = 3
    /\ Cardinality({request.result.scores[k] : k \in DOMAIN request.result.scores}) = 3
    /\ decision.margin = 35

\* C8: if an evaluation routes to review, an evaluation whose true flags include all of
\* its true flags routes to review too; more signals never turn review into accepted.
C8_GatingMonotone ==
    (/\ pc = "returned"
     /\ op = "make_decision"
     /\ prev.decision = "needs_human_review"
     /\ prev.flags \subseteq Summary(decision).flags)
    => decision.decision = "needs_human_review"

\* C8 witness: a review with two signals is followed by an evaluation with those two
\* signals and a third
C8_Witness ==
    /\ pc = "returned"
    /\ op = "make_decision"
    /\ prev.decision = "needs_human_review"
    /\ Cardinality(prev.flags) = 2
    /\ prev.flags \subseteq Summary(decision).flags
    /\ decision.risk_score = 3
    /\ decision.decision = "needs_human_review"
\* an analyze request has been answered; Refused: with an error
Answered == pc = "returned" /\ op = "analyze"
Refused == Answered /\ response.status # 200

\* C6 as stated: analyze rejects every request whose text is empty or longer than 4000
\* characters, a rejected request reaches no collaborator, and every other request is
\* evaluated with the supplied threshold, or 0.7 when it is absent.
C6_RejectsTextOver4000 ==
    Answered =>
        /\ (request.text = <<>> \/ Len(request.text) > 4000) => Refused
        /\ Refused => calls = <<>>
        /\ ~Refused =>
               decision.threshold =
                   IF request.confidence_threshold = None
                   THEN 70 ELSE request.confidence_threshold[1]

\* C6 as amended: analyze rejects exactly the requests whose threshold is out of range
\* or whose text, with the whitespace at both ends removed, is empty or longer than 4000
\* characters; a rejected request reaches no collaborator and leaves no record; every
\* other request is evaluated with the supplied threshold, or 0.7 when it is absent.
C6_RejectsStrippedTextOver4000 ==
    Answered =>
        LET stripped == str_strip(request.text)
            inRange == \/ request.confidence_threshold = None
                       \/ request.confidence_threshold[1] \in 0..100
        IN  /\ Refused <=> (~inRange \/ stripped = <<>> \/ Len(stripped) > 4000)
            /\ Refused =>
                   /\ calls = <<>>
                   /\ result = None /\ decision = None /\ explanation = None
                   /\ (classifier # 0) = was_loaded
            /\ ~Refused =>
                   /\ calls = <<"get_model", "predict", "make_decision",
                                "generate_explanation">>
                   /\ decision.threshold =
                          IF request.confidence_threshold = None
                          THEN 70 ELSE request.confidence_threshold[1]

\* C6 witness: a text still longer than 4000 characters once stripped is refused, on a
\* process whose classifier stays unloaded
C6_Witness ==
    /\ Refused
    /\ Len(str_strip(request.text)) > 4000
    /\ calls = <<>>
    /\ classifier = 0

\* C7: a health request leaves the classifier-loaded state as it found it, and the
\* ready value it reports equals whether the classifier was loaded when it arrived.
C7_HealthReadOnly ==
    (pc = "returned" /\ op = "health") =>
        /\ (classifier # 0) = was_loaded
        /\ response.ready = was_loaded

\* C9: in analyze, the "only mixed sentiment" sentence is never emitted; "no risk
\* signals" iff "comfortable accepting" iff riskScore = 0; "defers to human review" iff
\* riskScore >= 2; "accepted with cumulative risk score" iff riskScore = 1.
C9_NarrativeAgreesWithRecord ==
    (Answered /\ ~Refused) =>
        LET said(topic, sentence) == explanation[topic].sentence = sentence
        IN  /\ Len(explanation) = 6
            /\ \A t \in 1..6 : explanation[t].topic = t
            /\ ~said(4, "only_mixed")
            /\ said(5, "no_risk_signals") <=> decision.risk_score = 0
            /\ said(6, "comfortable_accepting") <=> decision.risk_score = 0
            /\ said(6, "defers_to_human_review") <=> decision.risk_score >= 2
            /\ said(6, "accepted_with_risk") <=> decision.risk_score = 1

\* C9 witness: one signal fired and the prediction is accepted with that score reported
C9_Witness ==
    /\ Answered
    /\ ~Refused
    /\ decision.risk_score = 1
    /\ explanation[6].sentence = "accepted_with_risk"
    /\ explanation[5].sentence = "triggered_risk_signals"

\* C10: TextClassifier is constructed at most once; every call of get_model after the
\* first returns that first instance; once set, _classifier is never replaced or reset.
C10_SingletonBuiltOnce ==
    /\ constructed <= 1
    /\ classifier = constructed
    /\ (pc = "returned" /\ calls # <<>>) =>
           (calls[1] = "get_model" /\ classifier = 1 /\ constructed = 1)

\* C10 witness: a handler that calls get_model finds the classifier already set
C10_Witness ==
    /\ pc = "returned"
    /\ calls # <<>>
    /\ calls[1] = "get_model"
    /\ was_loaded
    /\ classifier = 1
    /\ constructed = 1

====
